---- MODULE Spec2Model ----
(***************************************************************************)
(* REDCap multi-lingual migration: the annotation extractor                *)
(* (extract_em_translations.py), the translation table and the template    *)
(* filler (prepare_translations.py).                                       *)
(*                                                                         *)
(* Text is modelled character by character: a Python str is a sequence of  *)
(* one-character strings, indices are Python's (0-based, -1 = not found).  *)
(***************************************************************************)
EXTENDS Integers, Sequences, FiniteSets, TLC

VARIABLES
    \* ---- extractor (write_translations_file / write_translation_row)
    name,        \* field["field_name"]
    annotation,  \* field["field_annotation"]
    languages,   \* languages_dict, in key order: <<english name, native name>>
    calls,       \* the invocations of write_translation_row, outermost first
    depth,       \* the invocation that is running (0: none)
    rows,        \* what the csv writer has been given, in order
    total,       \* write_translations_file's lines_written
    raised,      \* the exception that ended the run ("" if none)
    xpc,         \* "start", "call", "return", "done", "error", "idle"
    \* ---- one TranslatedField and the lookups made on it
    entry,       \* the TranslatedField object
    built,       \* the entry as its constructor left it
    aliases,     \* available_languages: names <-> short codes
    last,        \* the latest get_translation call and its outcome
    succeeded,   \* whether some get_translation call has returned
    \* ---- load_csv
    csv_rows,    \* what csv.reader yields, row by row
    current_line,
    expected_row_length,
    detected_languages,
    result,      \* the table being built: <<key, TranslatedField>> in dict order
    skipped,     \* the line numbers reported as skipped
    cpc,         \* "reading", "done", "error", "idle"
    \* ---- apply_translations
    translations,      \* the table
    original_json,     \* the document: its categories in order
    selected_language,
    supported_languages_dict,
    replace_quotes_flag,
    before,      \* the document and table when the latest run began
    runs,        \* how many runs have ended
    returned,    \* what the latest run returned
    fpc          \* "ready", "error", "idle"

xvars == <<name, annotation, languages, calls, depth, rows, total, raised, xpc>>
lvars == <<entry, built, aliases, last, succeeded>>
cvars == <<csv_rows, current_line, expected_row_length, detected_languages,
           result, skipped, cpc>>
fvars == <<translations, original_json, selected_language,
           supported_languages_dict, replace_quotes_flag, before, runs, returned, fpc>>

vars == <<xvars, lvars, cvars, fvars>>

----------------------------------------------------------------------------
(* Python str primitives *)

Min(S) == CHOOSE x \in S : \A y \in S : x <= y
Max(S) == CHOOSE x \in S : \A y \in S : x >= y

\* s.find(sub): the lowest 0-based index where sub occurs, -1 if none
Find(s, sub) ==
    LET hits == {i \in 0..(Len(s) - Len(sub)) : SubSeq(s, i + 1, i + Len(sub)) = sub}
    IN  IF hits = {} THEN -1 ELSE Min(hits)

\* s.rfind(sub): the highest such index, -1 if none
RFind(s, sub) ==
    LET hits == {i \in 0..(Len(s) - Len(sub)) : SubSeq(s, i + 1, i + Len(sub)) = sub}
    IN  IF hits = {} THEN -1 ELSE Max(hits)

\* sub in s
Contains(s, sub) == Find(s, sub) # -1

\* a slice bound as Python normalises it: negative counts from the end, then clamp
SliceIndex(s, i) ==
    IF i < 0 THEN (IF i + Len(s) < 0 THEN 0 ELSE i + Len(s))
    ELSE IF i > Len(s) THEN Len(s) ELSE i

\* s[a:b]
Slice(s, a, b) ==
    LET lo == SliceIndex(s, a)
        hi == SliceIndex(s, b)
    IN  IF lo >= hi THEN <<>> ELSE SubSeq(s, lo + 1, hi)

\* s[a:]
SliceFrom(s, a) == SubSeq(s, SliceIndex(s, a) + 1, Len(s))

----------------------------------------------------------------------------
(* json.loads(to_parse, strict=False), on objects whose values are strings *)
(* or objects.  A parsed value is Str(text) or Dict(items); items keep the *)
(* insertion order of a Python dict: a sequence of <<key, value>>.         *)

QUOTE == "\""
\* what json.loads skips between tokens
Whitespace == {" ", "\t", "\n", "\r"}

Str(text) == [t |-> "str", s |-> text, d |-> <<>>]
Dict(items) == [t |-> "dict", s |-> <<>>, d |-> items]
IsDict(v) == v.t = "dict"

\* key in d
HasKey(items, k) == \E i \in 1..Len(items) : items[i][1] = k
\* d[key]
Get(items, k) == items[CHOOSE i \in 1..Len(items) : items[i][1] = k][2]
\* d[key] = v: a new key goes last, an existing key keeps its place
\* a dict whose first value for a key stays
PutKeepsFirst(items, k, v) ==
    IF HasKey(items, k) THEN items ELSE Append(items, <<k, v>>)

Put(items, k, v) ==
    IF HasKey(items, k)
    THEN [i \in 1..Len(items) |-> IF items[i][1] = k THEN <<k, v>> ELSE items[i]]
    ELSE Append(items, <<k, v>>)
\* the keys, in order
Keys(items) == [i \in 1..Len(items) |-> items[i][1]]

ParseFail == [ok |-> FALSE, v |-> Str(<<>>), next |-> 0]

RECURSIVE SkipWs(_, _)
SkipWs(s, i) ==
    IF i <= Len(s) /\ s[i] \in Whitespace THEN SkipWs(s, i + 1) ELSE i

\* s[i] is the opening quote; the string ends at the next quote
ParseString(s, i) ==
    LET close == {j \in (i + 1)..Len(s) : s[j] = QUOTE}
    IN  IF i > Len(s) \/ s[i] # QUOTE \/ close = {} THEN ParseFail
        ELSE [ok |-> TRUE, v |-> Str(SubSeq(s, i + 1, Min(close) - 1)),
              next |-> Min(close) + 1]

RECURSIVE ParseValue(_, _)
RECURSIVE ParseMembers(_, _, _)

\* i is the first character after "{" or after a ","; acc the items so far
ParseMembers(s, i, acc) ==
    LET k == ParseString(s, SkipWs(s, i))
        colon == SkipWs(s, k.next)
        v == ParseValue(s, SkipWs(s, colon + 1))
        after == SkipWs(s, v.next)
    IN  IF ~k.ok THEN ParseFail
        ELSE IF colon > Len(s) \/ s[colon] # ":" THEN ParseFail
        ELSE IF ~v.ok THEN ParseFail
        ELSE IF after > Len(s) THEN ParseFail
        ELSE IF s[after] = "," THEN ParseMembers(s, after + 1, Put(acc, k.v.s, v.v))
        ELSE IF s[after] = "}"
             THEN [ok |-> TRUE, v |-> Dict(Put(acc, k.v.s, v.v)), next |-> after + 1]
        ELSE ParseFail

ParseValue(s, i) ==
    IF i > Len(s) THEN ParseFail
    ELSE IF s[i] = QUOTE THEN ParseString(s, i)
    ELSE IF s[i] = "{"
         THEN LET j == SkipWs(s, i + 1)
              IN  IF j <= Len(s) /\ s[j] = "}"
                  THEN [ok |-> TRUE, v |-> Dict(<<>>), next |-> j + 1]
                  ELSE ParseMembers(s, i + 1, <<>>)
    ELSE ParseFail

\* the whole text must be one value between optional whitespace
json_loads(s) ==
    LET v == ParseValue(s, SkipWs(s, 1))
    IN  IF v.ok /\ SkipWs(s, v.next) = Len(s) + 1 THEN v ELSE ParseFail

----------------------------------------------------------------------------
(* Text constants of the program *)

P1000 == <<"p", "1", "0", "0", "0">>
AT_P1000 == <<"@">> \o P1000
P1000LANG == P1000 \o <<"l", "a", "n", "g">>
P1000SURVEYTEXT == P1000 \o <<"s", "u", "r", "v", "e", "y", "t", "e", "x", "t">>
P1000ANSWERS == P1000 \o <<"a", "n", "s", "w", "e", "r", "s">>
VALUE_OPEN == <<"[", "v", "a", "l", "u", "e", "=">>
VALUE_CLOSE == <<"]">>
FIELD == <<"F", "i", "e", "l", "d">>

----------------------------------------------------------------------------
(* extract_em_translations.py *)

RECURSIVE TransposeInto(_, _, _, _)
\* the two loops of transform_multi_choice_translations, from outer item i,
\* inner item j, with the result so far
TransposeInto(t, i, j, acc) ==
    IF i > Len(t) THEN acc
    ELSE LET inner == t[i][2].d
         IN  IF j > Len(inner) THEN TransposeInto(t, i + 1, 1, acc)
             ELSE LET choice == inner[j][1]
                      r1 == IF HasKey(acc, choice) THEN acc
                            ELSE Put(acc, choice, Dict(<<>>))
                      r2 == Put(r1, choice,
                                Dict(Put(Get(r1, choice).d, t[i][1], inner[j][2])))
                  IN  TransposeInto(t, i, j + 1, r2)

\* transform_multi_choice_translations(t): t[outer][inner] becomes
\* result[inner][outer].  Iterating a str value yields its characters, and
\* indexing the str by one of them raises TypeError.
transform_multi_choice_translations(t) ==
    IF \E i \in 1..Len(t) : ~IsDict(t[i][2]) /\ t[i][2].s # <<>>
    THEN [err |-> "TypeError", v |-> <<>>]
    ELSE [err |-> "", v |-> TransposeInto(t, 1, 1, <<>>)]

\* line_to_write after the loop over languages_dict.keys(): a language whose
\* native name is not in the payload gives '' (the KeyError is caught)
LineToWrite(first, translation_dict, langs) ==
    <<Str(first)>> \o
    [i \in 1..Len(langs) |->
        IF HasKey(translation_dict, langs[i][2])
        THEN Get(translation_dict, langs[i][2]) ELSE Str(<<>>)]

\* all(type(translation_dict[languages_dict[lang]]) == dict for lang in ...):
\* "true", "false", or "KeyError" when a language is missing before any
\* non-dict value is met (all() stops at the first false element)
AllDicts(translation_dict, langs) ==
    LET bad == {i \in 1..Len(langs) :
                    \/ ~HasKey(translation_dict, langs[i][2])
                    \/ ~IsDict(Get(translation_dict, langs[i][2]))}
    IN  IF bad = {} THEN "true"
        ELSE IF ~HasKey(translation_dict, langs[Min(bad)][2]) THEN "KeyError"
        ELSE "false"

\* one row per answer of answers_dict, columns in languages_dict.values() order
AnswerRows(nm, answers_dict, langs) ==
    [a \in 1..Len(answers_dict) |->
        <<Str(nm \o VALUE_OPEN \o answers_dict[a][1] \o VALUE_CLOSE)>> \o
        [i \in 1..Len(langs) |->
            IF HasKey(answers_dict[a][2].d, langs[i][2])
            THEN Get(answers_dict[a][2].d, langs[i][2]) ELSE Str(<<>>)]]

\* the sub-kind text the code inspects: annot[start_of_p_field:start_of_data]
SubKindText(annot) == Slice(annot, Find(annot, P1000), Find(annot, <<"{">>))

\* line_to_write[0]
RowKey(nm, annot) ==
    IF Contains(SubKindText(annot), P1000LANG)
       \/ Contains(SubKindText(annot), P1000SURVEYTEXT)
    THEN nm
    ELSE nm \o <<"_">> \o SubKindText(annot)

\* next_p_field as first computed: relative to start_of_data
NextPField(annot) == Find(SliceFrom(annot, Find(annot, <<"{">>)), AT_P1000)

\* to_parse
ToParse(annot) ==
    LET start_of_data == Find(annot, <<"{">>)
        end_of_data == IF NextPField(annot) > 0
                       THEN NextPField(annot) + start_of_data
                       ELSE RFind(annot, <<"}">>) + 1
    IN  Slice(annot, start_of_data, end_of_data)

\* the rows one invocation hands to the writer itself, or the error it raises
OwnRows(nm, annot, langs) ==
    LET parsed == json_loads(ToParse(annot))
        translation_dict == parsed.v.d
        line_to_write == LineToWrite(RowKey(nm, annot), translation_dict, langs)
        answers == transform_multi_choice_translations(translation_dict)
    IN  IF ~parsed.ok THEN [err |-> "JSONDecodeError", written |-> <<>>]
        ELSE IF Contains(SubKindText(annot), P1000ANSWERS)
        THEN IF AllDicts(translation_dict, langs) = "KeyError"
             THEN [err |-> "KeyError", written |-> <<>>]
             ELSE IF AllDicts(translation_dict, langs) = "false"
             THEN [err |-> "", written |-> <<>>]
             ELSE IF answers.err # ""
             THEN [err |-> answers.err, written |-> <<>>]
             ELSE [err |-> "", written |-> AnswerRows(nm, answers.v, langs)]
        ELSE [err |-> "", written |-> <<line_to_write>>]

\* an invocation that hands on the text from the index it found in the
\* slice, the payload's start not added
write_translation_row_unshifted(nm, annot, langs) ==
    LET own == OwnRows(nm, annot, langs)
    IN  [err |-> own.err,
         written |-> own.written,
         recurse |-> NextPField(annot) > 0,
         rest |-> SliceFrom(annot, NextPField(annot))]

\* write_translation_row up to its recursive call
write_translation_row(nm, annot, langs) ==
    LET own == OwnRows(nm, annot, langs)
    IN  [err |-> own.err,
         written |-> own.written,
         recurse |-> NextPField(annot) > 0,
         rest |-> SliceFrom(annot, NextPField(annot) + Find(annot, <<"{">>))]

\* one invocation: its argument, the row key it computed, the rows it wrote
\* itself, and what it returned
Frame(annot) == [annot |-> annot, key |-> <<>>, written |-> <<>>, ran |-> FALSE,
                 returned |-> FALSE, ret |-> 0]

----------------------------------------------------------------------------
(* The inputs: field records and language tables *)

\* how many markers an annotation holds at most
MaxMarkers == 2
\* how many blanks separate two markers at most
MaxGap == 1

English == <<"E", "n">>
Spanish == <<"S", "p">>
\* the native names, the keys of the payloads
EnglishNative == <<"E">>
SpanishNative == <<"S">>

\* languages_dict (english name -> native name), in key order
LanguageDicts ==
    { << <<English, EnglishNative>>, <<Spanish, SpanishNative>> >>,
      << <<Spanish, SpanishNative>>, <<English, EnglishNative>> >>,
      << <<English, EnglishNative>> >> }

FieldName == <<"q", "1">>

\* every language, plain texts: {"E":"a","S":"b"}
PayloadPlain ==
    <<"{", "\"", "E", "\"", ":", "\"", "a", "\"", ",", "\"", "S", "\"", ":", "\"", "b", "\"", "}">>

\* one language missing: {"E":"a"}
PayloadPartial ==
    <<"{", "\"", "E", "\"", ":", "\"", "a", "\"", "}">>

\* language -> {choice -> text}: {"E":{"0":"n","1":"y"},"S":{"0":"n","1":"s"}}
PayloadByLanguage ==
    <<"{", "\"", "E", "\"", ":", "{", "\"", "0", "\"", ":", "\"", "n", "\"", ",", "\"", "1", "\"", ":", "\"", "y", "\"", "}", ",", "\"", "S", "\"", ":", "{", "\"", "0", "\"", ":", "\"", "n", "\"", ",", "\"", "1", "\"", ":", "\"", "s", "\"", "}", "}">>

\* choice -> {language -> text}: {"0":{"E":"n","S":"n"},"1":{"E":"y","S":"s"}}
PayloadByChoice ==
    <<"{", "\"", "0", "\"", ":", "{", "\"", "E", "\"", ":", "\"", "n", "\"", ",", "\"", "S", "\"", ":", "\"", "n", "\"", "}", ",", "\"", "1", "\"", ":", "{", "\"", "E", "\"", ":", "\"", "y", "\"", ",", "\"", "S", "\"", ":", "\"", "s", "\"", "}", "}">>

\* language -> {choice -> text}, one language missing: {"E":{"0":"n","1":"y"}}
PayloadByLanguagePartial ==
    <<"{", "\"", "E", "\"", ":", "{", "\"", "0", "\"", ":", "\"", "n", "\"", ",", "\"", "1", "\"", ":", "\"", "y", "\"", "}", "}">>

\* one choice missing for one language: {"E":{"0":"n","1":"y"},"S":{"1":"s"}}
PayloadByLanguageSparse ==
    <<"{", "\"", "E", "\"", ":", "{", "\"", "0", "\"", ":", "\"", "n", "\"", ",", "\"", "1", "\"", ":", "\"", "y", "\"", "}", ",", "\"", "S", "\"", ":", "{", "\"", "1", "\"", ":", "\"", "s", "\"", "}", "}">>

\* only some values are mappings: {"E":{"0":"n"},"S":"b"}
PayloadMixed ==
    <<"{", "\"", "E", "\"", ":", "{", "\"", "0", "\"", ":", "\"", "n", "\"", "}", ",", "\"", "S", "\"", ":", "\"", "b", "\"", "}">>

\* mappings without choices: {"E":{},"S":{}}
PayloadEmptyMappings ==
    <<"{", "\"", "E", "\"", ":", "{", "}", ",", "\"", "S", "\"", ":", "{", "}", "}">>

\* no language at all: {}
PayloadEmpty ==
    <<"{", "}">>

\* not JSON: {"E":"a"
PayloadBroken ==
    <<"{", "\"", "E", "\"", ":", "\"", "a", "\"">>

Payloads ==
    { PayloadPlain, PayloadPartial, PayloadByLanguage, PayloadByChoice,
      PayloadByLanguagePartial, PayloadByLanguageSparse, PayloadMixed,
      PayloadEmptyMappings, PayloadEmpty, PayloadBroken }

SubKinds ==
    { <<"l", "a", "n", "g">>,
      <<"s", "u", "r", "v", "e", "y", "t", "e", "x", "t">>,
      <<"n", "o", "t", "e", "s">>,
      <<"a", "n", "s", "w", "e", "r", "s">> }

\* what may stand between the sub-kind name and the payload
Separators == { <<>>, <<"=">> }
\* what may stand before the first marker
PreTexts == { <<>>, <<"x", " ">>, <<"{", "}", " ">> }
\* what may stand after the last payload
PostTexts == { <<>>, <<" ", "x">> }

Marker(kind, sep, payload) == AT_P1000 \o kind \o sep \o payload

Blanks(n) == [i \in 1..n |-> " "]

\* one marker, in every shape
SingleAnnotations ==
    { pre \o Marker(k, sep, p) \o post :
        pre \in PreTexts, k \in SubKinds, sep \in Separators,
        p \in Payloads, post \in PostTexts }

\* the markers of the annotations that hold several
SeriesMarkers ==
    { Marker(k, <<>>, p) :
        k \in SubKinds, p \in {PayloadPlain, PayloadPartial, PayloadByLanguage} }

RECURSIVE Series(_, _)
\* n markers, gap between them
Series(n, gap) ==
    IF n = 1 THEN SeriesMarkers
    ELSE { m \o gap \o rest : m \in SeriesMarkers, rest \in Series(n - 1, gap) }

SeriesAnnotations ==
    { pre \o body :
        pre \in { <<>>, <<"{", "}", " ">> },
        body \in UNION { Series(n, Blanks(g)) : n \in 2..MaxMarkers, g \in 0..MaxGap } }

\* no marker at all; a marker and no payload
OtherAnnotations == { <<>>, <<"x">>, AT_P1000 \o <<"l", "a", "n", "g">> }

Annotations == SingleAnnotations \cup SeriesAnnotations \cup OtherAnnotations

----------------------------------------------------------------------------
(* write_translations_file on one field record *)

XInit ==
    /\ name = FieldName
    /\ annotation \in Annotations
    /\ languages \in LanguageDicts
    /\ calls = <<>>
    /\ depth = 0
    /\ rows = <<>>
    /\ total = 0
    /\ raised = ""
    /\ xpc = "start"
    \* the rest of the program is not running
    /\ entry = <<>> /\ built = <<>> /\ aliases = <<>> /\ last = <<>>
    /\ succeeded = FALSE
    /\ csv_rows = <<>> /\ current_line = 0 /\ expected_row_length = 0
    /\ detected_languages = <<>> /\ result = <<>> /\ skipped = <<>> /\ cpc = "idle"
    /\ translations = <<>> /\ original_json = <<>> /\ selected_language = <<>>
    /\ supported_languages_dict = <<>> /\ replace_quotes_flag = FALSE
    /\ before = <<>> /\ runs = 0 /\ returned = 0 /\ fpc = "idle"

HeaderRow(langs) == <<Str(FIELD)>> \o [i \in 1..Len(langs) |-> Str(langs[i][1])]

\* the header row, then the field: only an annotation that holds "@p1000"
\* is handed to write_translation_row
write_translations_file ==
    /\ xpc = "start"
    /\ rows' = <<HeaderRow(languages)>>
    /\ IF Contains(annotation, AT_P1000)
       THEN /\ calls' = <<Frame(annotation)>>
            /\ depth' = 1
            /\ xpc' = "call"
       ELSE /\ calls' = <<>>
            /\ depth' = 0
            /\ xpc' = "done"
    /\ UNCHANGED <<name, annotation, languages, total, raised>>
    /\ UNCHANGED <<lvars, cvars, fvars>>

\* the running invocation, up to its return or its recursive call; an
\* exception leaves through every caller and ends the run
Call ==
    /\ xpc = "call"
    /\ \E r \in {write_translation_row(name, calls[depth].annot, languages)} :
       LET me == [calls[depth] EXCEPT !.key = RowKey(name, calls[depth].annot),
                                      !.written = r.written,
                                      !.ran = TRUE]
       IN  IF r.err # ""
           THEN /\ xpc' = "error"
                /\ raised' = r.err
                /\ UNCHANGED <<calls, depth, rows>>
           ELSE /\ rows' = rows \o r.written
                /\ raised' = raised
                /\ IF r.recurse
                   THEN /\ calls' = Append([calls EXCEPT ![depth] = me], Frame(r.rest))
                        /\ depth' = depth + 1
                        /\ xpc' = "call"
                   ELSE /\ calls' = [calls EXCEPT ![depth] = me]
                        /\ depth' = depth
                        /\ xpc' = "return"
    /\ UNCHANGED <<name, annotation, languages, total>>
    /\ UNCHANGED <<lvars, cvars, fvars>>

\* return lines_written: the invocation's own rows plus what its recursive
\* call returned
Return ==
    /\ xpc = "return"
    /\ LET ret == Len(calls[depth].written)
                  + (IF depth < Len(calls) THEN calls[depth + 1].ret ELSE 0)
       IN  /\ calls' = [calls EXCEPT ![depth].returned = TRUE, ![depth].ret = ret]
           /\ depth' = depth - 1
           /\ IF depth = 1
              THEN xpc' = "done" /\ total' = total + ret
              ELSE xpc' = "return" /\ total' = total
    /\ UNCHANGED <<name, annotation, languages, rows, raised>>
    /\ UNCHANGED <<lvars, cvars, fvars>>

XNext == write_translations_file \/ Call \/ Return

SpecExtract == XInit /\ [][XNext]_vars


----------------------------------------------------------------------------
(* prepare_translations.py: TranslatedField *)

RECURSIVE Replace(_, _, _)
\* s.replace(old, new) for a non-empty old: the occurrences are taken from
\* the left and do not overlap
Replace(s, old, new) ==
    IF Len(s) < Len(old) THEN s
    ELSE IF SubSeq(s, 1, Len(old)) = old
         THEN new \o Replace(SubSeq(s, Len(old) + 1, Len(s)), old, new)
    ELSE <<Head(s)>> \o Replace(Tail(s), old, new)

\* the characters str.strip() removes (of those the model writes)
StripChars == {" ", "\t", "\n", "\r", "\f"}

RECURSIVE LStrip(_)
LStrip(s) == IF s # <<>> /\ Head(s) \in StripChars THEN LStrip(Tail(s)) ELSE s

RECURSIVE RStrip(_)
RStrip(s) ==
    IF s # <<>> /\ s[Len(s)] \in StripChars THEN RStrip(SubSeq(s, 1, Len(s) - 1)) ELSE s

\* s.strip()
Strip(s) == RStrip(LStrip(s))

RECURSIVE ZipInto(_, _, _, _)
\* for lang, text in zip(language_order_key, csv_row):
\*     self.translations[lang] = text
ZipInto(language_order_key, csv_row, i, acc) ==
    IF i > Len(language_order_key) \/ i > Len(csv_row) THEN acc
    ELSE ZipInto(language_order_key, csv_row, i + 1,
                 Put(acc, language_order_key[i], csv_row[i]))

\* TranslatedField.__init__
TranslatedField(field, csv_row, language_order_key) ==
    [field_name |-> field,
     translations |-> ZipInto(language_order_key, csv_row, 1, <<>>),
     translated |-> FALSE,
     is_incomplete |->
        \E i \in 1..Len(csv_row) : i <= Len(language_order_key) /\ csv_row[i] = <<>>]

UNDERSCORES == <<"_", "_", "_">>

\* the text self.translations[...] of line 41 reads
StoredText(e, l, available_languages) ==
    IF HasKey(e.translations, l) THEN Get(e.translations, l)
    ELSE Get(e.translations, Get(available_languages, l))

\* a lookup that keeps the blanks at the ends of the text
get_translation_unstripped(e, l, available_languages, replace_quotes) ==
    LET found == \/ HasKey(e.translations, l)
                 \/ /\ HasKey(available_languages, l)
                    /\ HasKey(e.translations, Get(available_languages, l))
        t1 == Replace(StoredText(e, l, available_languages), UNDERSCORES, <<"@">>)
        t2 == IF replace_quotes THEN Replace(t1, <<QUOTE>>, <<"'">>) ELSE t1
    IN  IF ~found THEN [err |-> "KeyError", text |-> <<>>, entry |-> e]
        ELSE [err |-> "", text |-> t2, entry |-> [e EXCEPT !.translated = TRUE]]

\* a lookup that knows the entry's own keys only
get_translation_by_own_key(e, l, available_languages, replace_quotes) ==
    LET found == HasKey(e.translations, l)
        t1 == Replace(Get(e.translations, l), UNDERSCORES, <<"@">>)
        t2 == IF replace_quotes THEN Replace(t1, <<QUOTE>>, <<"'">>) ELSE t1
    IN  IF ~found THEN [err |-> "KeyError", text |-> <<>>, entry |-> e]
        ELSE [err |-> "", text |-> Strip(t2), entry |-> [e EXCEPT !.translated = TRUE]]

\* TranslatedField.get_translation: the text returned (or the KeyError of
\* line 41) and the entry afterwards
get_translation(e, l, available_languages, replace_quotes) ==
    LET found == \/ HasKey(e.translations, l)
                 \/ /\ HasKey(available_languages, l)
                    /\ HasKey(e.translations, Get(available_languages, l))
        t1 == Replace(StoredText(e, l, available_languages), UNDERSCORES, <<"@">>)
        t2 == IF replace_quotes THEN Replace(t1, <<QUOTE>>, <<"'">>) ELSE t1
    IN  IF ~found THEN [err |-> "KeyError", text |-> <<>>, entry |-> e]
        ELSE [err |-> "", text |-> Strip(t2), entry |-> [e EXCEPT !.translated = TRUE]]

RECURSIVE AddReverse(_, _, _)
\* supported_languages_dict |= {code: name for each name}: the pairs of d,
\* reversed, put into acc one after the other
AddReverse(d, i, acc) ==
    IF i > Len(d) THEN acc ELSE AddReverse(d, i + 1, Put(acc, d[i][2], d[i][1]))

\* the alias table fill_new_translation_json hands on
Bidirectional(d) == AddReverse(d, 1, d)

----------------------------------------------------------------------------
(* Lookups on one entry *)

\* how long a stored text is at most
MaxTextLen == 5

EnglishCode == <<"e", "n">>
SpanishCode == <<"e", "s">>
French == <<"F", "r">>
FrenchCode == <<"f", "r">>

TextChars == {"a", "_", QUOTE, " "}

RECURSIVE TextsOfLen(_)
TextsOfLen(n) ==
    IF n = 0 THEN {<<>>}
    ELSE {<<c>> \o t : c \in TextChars, t \in TextsOfLen(n - 1)}

Texts == UNION {TextsOfLen(n) : n \in 0..MaxTextLen}

\* contact___example.com, shortened; He said \"hi\" with the backslashes in
\* the text, shortened; a tab and a newline around a text
ContactText == <<"c", "_", "_", "_", "e", ".", "c">>
EscapedQuoteText == <<"s", " ", "\\", QUOTE, "h", "\\", QUOTE>>
PaddedText == <<"\t", "a", " ", "\n">>
ExampleTexts == {ContactText, EscapedQuoteText, PaddedText}

\* the alias tables: every language, or English alone
AliasTables ==
    { Bidirectional(<< <<English, EnglishCode>>, <<Spanish, SpanishCode>> >>),
      Bidirectional(<< <<English, EnglishCode>> >>) }

\* what a caller may pass as the language
LookupArguments == {English, Spanish, EnglishCode, SpanishCode, French, FrenchCode}

NoCall == [called |-> FALSE, l |-> <<>>, replace_quotes |-> FALSE,
           err |-> "", text |-> <<>>]

\* an entry over English and Spanish with any Spanish text, or an entry
\* over English alone
LInit ==
    /\ \/ /\ \E text \in Texts \cup ExampleTexts :
                entry = TranslatedField(FieldName, <<<<"h", "i">>, text>>,
                                        <<English, Spanish>>)
          /\ aliases \in AliasTables
       \/ /\ \E text \in ExampleTexts \cup {<<>>} :
                entry = TranslatedField(FieldName, <<text>>, <<English>>)
          /\ aliases \in AliasTables
    /\ built = entry
    /\ last = NoCall
    /\ succeeded = FALSE
    \* the rest of the program is not running
    /\ name = <<>> /\ annotation = <<>> /\ languages = <<>> /\ calls = <<>>
    /\ depth = 0 /\ rows = <<>> /\ total = 0 /\ raised = "" /\ xpc = "idle"
    /\ csv_rows = <<>> /\ current_line = 0 /\ expected_row_length = 0
    /\ detected_languages = <<>> /\ result = <<>> /\ skipped = <<>> /\ cpc = "idle"
    /\ translations = <<>> /\ original_json = <<>> /\ selected_language = <<>>
    /\ supported_languages_dict = <<>> /\ replace_quotes_flag = FALSE
    /\ before = <<>> /\ runs = 0 /\ returned = 0 /\ fpc = "idle"

\* one call of get_translation on the entry
Lookup ==
    \E l \in LookupArguments, replace_quotes \in BOOLEAN :
        LET r == get_translation(entry, l, aliases, replace_quotes)
        IN  /\ entry' = r.entry
            /\ last' = [called |-> TRUE, l |-> l, replace_quotes |-> replace_quotes,
                        err |-> r.err, text |-> r.text]
            /\ succeeded' = (succeeded \/ r.err = "")
            /\ UNCHANGED <<built, aliases>>
            /\ UNCHANGED <<xvars, cvars, fvars>>

LNext == Lookup

SpecLookup == LInit /\ [][LNext]_vars

----------------------------------------------------------------------------
(* load_csv *)

\* how many rows follow the header at most
MaxRows == 2

\* the cells of the rows: keys and texts
CsvKeys == {<<"f">>, <<"g">>}
CsvTexts == {<<>>, <<"a">>}

\* the rows csv.reader may yield: a blank line gives the empty row
CsvDataRows ==
    {<<>>} \cup {<<k>> : k \in CsvKeys}
    \cup {<<k, t>> : k \in CsvKeys, t \in CsvTexts}
    \cup {<<k, t, u>> : k \in CsvKeys, t \in CsvTexts, u \in CsvTexts}

CsvHeaders == {<<>>, <<FIELD>>, <<FIELD, English>>, <<FIELD, English, Spanish>>}

RECURSIVE RowLists(_)
\* the lists of n data rows
RowLists(n) ==
    IF n = 0 THEN {<<>>}
    ELSE {<<r>> \o rest : r \in CsvDataRows, rest \in RowLists(n - 1)}

\* an empty file, or a header and up to MaxRows rows
CInit ==
    /\ \/ csv_rows = <<>>
       \/ \E h \in CsvHeaders, n \in 0..MaxRows :
            \E rest \in RowLists(n) : csv_rows = <<h>> \o rest
    /\ current_line = 0
    /\ expected_row_length = 0
    /\ detected_languages = <<>>
    /\ result = <<>>
    /\ skipped = <<>>
    /\ cpc = "reading"
    \* the rest of the program is not running
    /\ name = <<>> /\ annotation = <<>> /\ languages = <<>> /\ calls = <<>>
    /\ depth = 0 /\ rows = <<>> /\ total = 0 /\ raised = "" /\ xpc = "idle"
    /\ entry = <<>> /\ built = <<>> /\ aliases = <<>> /\ last = <<>>
    /\ succeeded = FALSE
    /\ translations = <<>> /\ original_json = <<>> /\ selected_language = <<>>
    /\ supported_languages_dict = <<>> /\ replace_quotes_flag = FALSE
    /\ before = <<>> /\ runs = 0 /\ returned = 0 /\ fpc = "idle"

\* one turn of the loop over translations_reader
ReadRow ==
    /\ cpc = "reading"
    /\ current_line < Len(csv_rows)
    /\ LET row == csv_rows[current_line + 1]
       IN  /\ current_line' = current_line + 1
           /\ IF current_line + 1 = 1
              THEN /\ expected_row_length' = Len(row)
                   /\ detected_languages' = SliceFrom(row, 1)
                   /\ UNCHANGED <<result, skipped, cpc>>
              ELSE IF Len(row) = expected_row_length
              THEN IF Len(row) = 0
                   THEN \* row[0] raises IndexError
                        /\ cpc' = "error"
                        /\ UNCHANGED <<expected_row_length, detected_languages,
                                       result, skipped>>
                   ELSE /\ result' = Put(result, row[1],
                                         TranslatedField(row[1], SliceFrom(row, 1),
                                                         detected_languages))
                        /\ UNCHANGED <<expected_row_length, detected_languages,
                                       skipped, cpc>>
              ELSE /\ skipped' = Append(skipped, current_line + 1)
                   /\ UNCHANGED <<expected_row_length, detected_languages,
                                  result, cpc>>
    /\ UNCHANGED csv_rows
    /\ UNCHANGED <<xvars, lvars, fvars>>

\* the reader is exhausted: return result
EndOfFile ==
    /\ cpc = "reading"
    /\ current_line = Len(csv_rows)
    /\ cpc' = "done"
    /\ UNCHANGED <<csv_rows, current_line, expected_row_length, detected_languages,
                   result, skipped>>
    /\ UNCHANGED <<xvars, lvars, fvars>>

CNext == ReadRow \/ EndOfFile

SpecLoad == CInit /\ [][CNext]_vars

----------------------------------------------------------------------------
(* prepare_translations.py: apply_translations *)

\* A field node: its id if it has one; its translation slots (direct, in
\* label, in note), each present or not; its enum list if it has one, each
\* choice with its id as str() gives it and its translation.
Slot(text) == [has |-> TRUE, v |-> text]
NoSlot == [has |-> FALSE, v |-> <<>>]
IsEmptySlot(slot) == slot.has /\ slot.v = <<>>

NOTES_SUFFIX == <<"_">> \o P1000 \o <<"n", "o", "t", "e", "s">>

\* csv_entry of an enum choice
ChoiceKey(id, choice) == id \o VALUE_OPEN \o choice \o VALUE_CLOSE

RECURSIVE EnumWrites(_, _, _)
\* the loop over the enum list, from choice i: the choices it fills
EnumWrites(node, table, i) ==
    IF i > Len(node.enum) THEN <<>>
    ELSE (IF /\ node.enum[i].translation = <<>>
             /\ HasKey(table, ChoiceKey(node.id, node.enum[i].id))
          THEN <<[slot |-> "enum", index |-> i,
                  key |-> ChoiceKey(node.id, node.enum[i].id)]>>
          ELSE <<>>)
         \o EnumWrites(node, table, i + 1)

\* a filler that writes the direct slot and the note whatever they hold
NodeWritesOverFilled(node, table) ==
    IF ~node.hasId THEN <<>>
    ELSE IF ~HasKey(table, node.id) THEN <<>>
    ELSE (IF node.direct.has
          THEN <<[slot |-> "translation", index |-> 0, key |-> node.id]>>
          ELSE IF IsEmptySlot(node.label)
          THEN <<[slot |-> "label", index |-> 0, key |-> node.id]>>
          ELSE <<>>)
         \o (IF node.hasEnum THEN EnumWrites(node, table, 1) ELSE <<>>)
         \o (IF node.note.has /\ HasKey(table, node.id \o NOTES_SUFFIX)
             THEN <<[slot |-> "note", index |-> 0, key |-> node.id \o NOTES_SUFFIX]>>
             ELSE <<>>)

\* the slots of one node that apply_translations fills, in the order it
\* fills them, each with the table key it reads
NodeWrites(node, table) ==
    IF ~node.hasId THEN <<>>
    ELSE IF ~HasKey(table, node.id) THEN <<>>
    ELSE (IF IsEmptySlot(node.direct)
          THEN <<[slot |-> "translation", index |-> 0, key |-> node.id]>>
          ELSE IF IsEmptySlot(node.label)
          THEN <<[slot |-> "label", index |-> 0, key |-> node.id]>>
          ELSE <<>>)
         \o (IF node.hasEnum THEN EnumWrites(node, table, 1) ELSE <<>>)
         \o (IF IsEmptySlot(node.note) /\ HasKey(table, node.id \o NOTES_SUFFIX)
             THEN <<[slot |-> "note", index |-> 0, key |-> node.id \o NOTES_SUFFIX]>>
             ELSE <<>>)

RECURSIVE CategoryWrites(_, _, _, _)
\* the loop over one category's nodes, from node n
CategoryWrites(doc, table, c, n) ==
    IF n > Len(doc[c].nodes) THEN <<>>
    ELSE [k \in 1..Len(NodeWrites(doc[c].nodes[n], table)) |->
            [c |-> c, n |-> n, w |-> NodeWrites(doc[c].nodes[n], table)[k]]]
         \o CategoryWrites(doc, table, c, n + 1)

RECURSIVE DocWrites(_, _, _)
\* the loop over the categories, from category c: only a category that is
\* a non-empty list is walked
DocWrites(doc, table, c) ==
    IF c > Len(doc) THEN <<>>
    ELSE (IF doc[c].list /\ Len(doc[c].nodes) > 0
          THEN CategoryWrites(doc, table, c, 1) ELSE <<>>)
         \o DocWrites(doc, table, c + 1)

\* the document with one slot set
WriteSlot(doc, at, text) ==
    IF at.w.slot = "translation"
    THEN [doc EXCEPT ![at.c].nodes[at.n].direct.v = text]
    ELSE IF at.w.slot = "label"
    THEN [doc EXCEPT ![at.c].nodes[at.n].label.v = text]
    ELSE IF at.w.slot = "enum"
    THEN [doc EXCEPT ![at.c].nodes[at.n].enum[at.w.index].translation = text]
    ELSE [doc EXCEPT ![at.c].nodes[at.n].note.v = text]

RECURSIVE ApplyWrites(_, _, _, _, _, _, _)
\* the writes from the i-th on, one get_translation each; a KeyError ends
\* the run where it is raised
ApplyWrites(doc, table, writes, i, l, available_languages, replace_quotes) ==
    IF i > Len(writes) THEN [doc |-> doc, table |-> table, err |-> "", ret |-> i - 1]
    ELSE LET r == get_translation(Get(table, writes[i].w.key), l,
                                  available_languages, replace_quotes)
         IN  IF r.err # ""
             THEN [doc |-> doc, table |-> table, err |-> r.err, ret |-> 0]
             ELSE ApplyWrites(WriteSlot(doc, writes[i], r.text),
                              Put(table, writes[i].w.key, r.entry),
                              writes, i + 1, l, available_languages, replace_quotes)

\* apply_translations: the document and the table afterwards, and the sum
\* it returns (one per slot written) or the exception it raises
apply_translations(table, doc, l, available_languages, replace_quotes) ==
    ApplyWrites(doc, table, DocWrites(doc, table, 1), 1, l,
                available_languages, replace_quotes)

----------------------------------------------------------------------------
(* Runs of the filler on one document *)

\* how many nodes follow the first node of the main category at most
MaxExtraNodes == 1
\* how many times the filler is run on the document
MaxRuns == 2

Filled == <<"X">>
OtherId == <<"g">>

\* a slot: absent, empty, or already filled
Slots == {NoSlot, Slot(<<>>), Slot(Filled)}

Choice(id, text) == [id |-> id, translation |-> text]

\* no enum; one choice empty and one filled; two empty, one of them never
\* in the table
Enums ==
    { <<>>,
      <<Choice(<<"0">>, <<>>), Choice(<<"1">>, Filled)>>,
      <<Choice(<<"0">>, <<>>), Choice(<<"2">>, <<>>)>> }

MainNodes ==
    { [hasId |-> TRUE, id |-> FieldName, direct |-> d, label |-> lb,
       hasEnum |-> en # <<>>, enum |-> en, note |-> nt] :
        d \in Slots, lb \in Slots, en \in Enums, nt \in Slots }

\* a node without an id; a node of another field with an empty slot
NoIdNode == [hasId |-> FALSE, id |-> <<>>, direct |-> Slot(<<>>), label |-> NoSlot,
             hasEnum |-> FALSE, enum |-> <<>>, note |-> NoSlot]
OtherNode == [hasId |-> TRUE, id |-> OtherId, direct |-> Slot(<<>>), label |-> NoSlot,
              hasEnum |-> FALSE, enum |-> <<>>, note |-> Slot(<<>>)]

RECURSIVE NodeLists(_)
NodeLists(n) ==
    IF n = 0 THEN {<<>>}
    ELSE {<<x>> \o rest : x \in {NoIdNode, OtherNode}, rest \in NodeLists(n - 1)}

NotAList == [list |-> FALSE, nodes |-> <<>>]
List(nodes) == [list |-> TRUE, nodes |-> nodes]

\* a category that is no list, an empty one, the main one, a last one
Documents ==
    { <<NotAList, List(<<>>), List(<<m>> \o extra), List(<<OtherNode>>)>> :
        m \in MainNodes,
        extra \in UNION {NodeLists(n) : n \in 0..MaxExtraNodes} }

\* one table row as load_csv stores it, over English and Spanish
TableItem(key, spanish) ==
    <<key, TranslatedField(key, <<<<"e">>, spanish>>, <<English, Spanish>>)>>

\* the texts under the field's own key: plain, or blank
MainTexts == {<<"h", "_", "_", "_">>, <<" ">>}

\* the tables: the other field always; the field's own row, its choices
\* 0 and 1, its note, each there or not
Tables ==
    { main \o choices \o note \o <<TableItem(OtherId, <<"o">>)>> :
        main \in {<<>>} \cup {<<TableItem(FieldName, t)>> : t \in MainTexts},
        choices \in { <<>>,
                      <<TableItem(ChoiceKey(FieldName, <<"0">>), <<"n">>),
                        TableItem(ChoiceKey(FieldName, <<"1">>), <<"y">>)>> },
        note \in { <<>>, <<TableItem(FieldName \o NOTES_SUFFIX, <<QUOTE, "t">>)>> } }

FInit ==
    /\ translations \in Tables
    /\ original_json \in Documents
    /\ selected_language \in {Spanish, SpanishCode, French}
    /\ supported_languages_dict =
          Bidirectional(<< <<English, EnglishCode>>, <<Spanish, SpanishCode>> >>)
    /\ replace_quotes_flag \in BOOLEAN
    /\ before = [original_json |-> original_json, translations |-> translations]
    /\ runs = 0
    /\ returned = 0
    /\ fpc = "ready"
    \* the rest of the program is not running
    /\ name = <<>> /\ annotation = <<>> /\ languages = <<>> /\ calls = <<>>
    /\ depth = 0 /\ rows = <<>> /\ total = 0 /\ raised = "" /\ xpc = "idle"
    /\ entry = <<>> /\ built = <<>> /\ aliases = <<>> /\ last = <<>>
    /\ succeeded = FALSE
    /\ csv_rows = <<>> /\ current_line = 0 /\ expected_row_length = 0
    /\ detected_languages = <<>> /\ result = <<>> /\ skipped = <<>> /\ cpc = "idle"

\* one run of apply_translations on the document as it is, with the same
\* table and arguments
ApplyTranslations ==
    /\ fpc = "ready"
    /\ runs < MaxRuns
    /\ LET r == apply_translations(translations, original_json, selected_language,
                                   supported_languages_dict, replace_quotes_flag)
       IN  /\ before' = [original_json |-> original_json, translations |-> translations]
           /\ original_json' = r.doc
           /\ translations' = r.table
           /\ IF r.err # ""
              THEN fpc' = "error" /\ UNCHANGED <<runs, returned>>
              ELSE fpc' = "ready" /\ runs' = runs + 1 /\ returned' = r.ret
    /\ UNCHANGED <<selected_language, supported_languages_dict, replace_quotes_flag>>
    /\ UNCHANGED <<xvars, lvars, cvars>>

FNext == ApplyTranslations

SpecFill == FInit /\ [][FNext]_vars

----------------------------------------------------------------------------
(* Properties of the extractor *)

Letters ==
    { "a", "b", "c", "d", "e", "f", "g", "h", "i", "j", "k", "l", "m",
      "n", "o", "p", "q", "r", "s", "t", "u", "v", "w", "x", "y", "z" }

RECURSIVE LeadingLetters(_)
\* how many letters s begins with
LeadingLetters(s) ==
    IF s # <<>> /\ Head(s) \in Letters THEN 1 + LeadingLetters(Tail(s)) ELSE 0

\* the sub-kind name of the first marker of annot: "p1000" and the letters
\* that follow it
SubKindName(annot) ==
    LET from == SliceFrom(annot, Find(annot, P1000))
    IN  SubSeq(from, 1, Len(P1000) + LeadingLetters(SliceFrom(from, Len(P1000))))

\* the data rows (the header row left out)
DataRows == SubSeq(rows, 2, Len(rows))

\* where the markers of annot begin (0-based), in order
MarkerStarts(annot) ==
    LET at == {i \in 0..(Len(annot) - Len(AT_P1000)) :
                  SubSeq(annot, i + 1, i + Len(AT_P1000)) = AT_P1000}
    IN  [k \in 1..Cardinality(at) |->
            CHOOSE i \in at : Cardinality({j \in at : j < i}) = k - 1]

\* the k-th marker of annot: from its prefix to the next marker's prefix
MarkerText(annot, k) ==
    LET starts == MarkerStarts(annot)
    IN  Slice(annot, starts[k],
              IF k < Len(starts) THEN starts[k + 1] ELSE Len(annot))

\* the k-th marker's payload: from its first "{" to the next prefix, or to
\* the last "}" for the final marker
MarkerPayload(annot, k) ==
    LET m == MarkerText(annot, k)
    IN  Slice(m, Find(m, <<"{">>),
              IF k < Len(MarkerStarts(annot)) THEN Len(m) ELSE RFind(m, <<"}">>) + 1)

IsAnswersMarker(m) == SubKindName(m) = P1000ANSWERS

\* C4 as stated: an answers marker whose payload parses to
\* choice -> {language name -> text} (every top-level value a mapping) makes
\* its invocation write exactly one row per choice, keyed
\* name[value=choice], holding per requested language that choice's text or
\* '', and the invocation does not raise.
C4_RowPerChoice ==
    \A i \in 1..Len(calls) :
        LET a == calls[i].annot
            payload == json_loads(ToParse(a))
            byChoice == payload.v.d
        IN  (/\ Contains(SubKindText(a), P1000ANSWERS)
             /\ payload.ok
             /\ \A c \in 1..Len(byChoice) : IsDict(byChoice[c][2]))
            => /\ ~(i = depth /\ xpc = "error")
               /\ calls[i].ran =>
                    calls[i].written =
                        [c \in 1..Len(byChoice) |->
                            <<Str(name \o VALUE_OPEN \o byChoice[c][1] \o VALUE_CLOSE)>> \o
                            [l \in 1..Len(languages) |->
                                IF HasKey(byChoice[c][2].d, languages[l][2])
                                THEN Get(byChoice[c][2].d, languages[l][2])
                                ELSE Str(<<>>)]]

\* C5 as stated: every invocation that writes its line for a marker that is
\* not an answers marker keys it with the bare field name for the sub-kinds
\* lang and surveytext, and with name_subkind for any other sub-kind,
\* whatever precedes the marker and whatever separates the sub-kind name
\* from "{".
C5_RowKeyFromSubKind ==
    \A i \in 1..Len(calls) :
        LET kind == SubKindName(calls[i].annot)
        IN  (calls[i].ran /\ kind # P1000ANSWERS /\ calls[i].written # <<>>)
            => calls[i].written[1][1] =
                  Str(IF kind \in {P1000LANG, P1000SURVEYTEXT}
                      THEN name ELSE name \o <<"_">> \o kind)

\* an annotation of n >= 2 markers, none an answers marker, each with a
\* payload that parses
SeveralPlainMarkers(annot) ==
    /\ Len(MarkerStarts(annot)) >= 2
    /\ \A k \in 1..Len(MarkerStarts(annot)) :
        /\ ~IsAnswersMarker(MarkerText(annot, k))
        /\ json_loads(MarkerPayload(annot, k)).ok

\* C6 as stated: for such an annotation the run does not raise and ends
\* with n rows in marker order, the k-th row being the row of the k-th
\* marker alone (its key from its sub-kind text, its cells from its payload).
C6_RowPerMarker ==
    SeveralPlainMarkers(annotation) =>
        /\ xpc # "error"
        /\ xpc = "done" =>
            DataRows =
                [k \in 1..Len(MarkerStarts(annotation)) |->
                    LineToWrite(RowKey(name, MarkerText(annotation, k)),
                                json_loads(MarkerPayload(annotation, k)).v.d,
                                languages)]

\* C10 (a) as stated: an invocation whose payload parses never raises
\* because a requested language is absent from the payload.
C10_MissingLanguageNotFatal ==
    (xpc = "error" /\ depth >= 1) =>
        LET payload == json_loads(ToParse(calls[depth].annot))
        IN  ~(/\ payload.ok
              /\ \E l \in 1..Len(languages) : ~HasKey(payload.v.d, languages[l][2]))

(* The rows of C12 *)

RECURSIVE RowsFrom(_)
\* how many rows the i-th invocation and the invocations under it wrote
RowsFrom(i) ==
    IF i > Len(calls) THEN 0 ELSE Len(calls[i].written) + RowsFrom(i + 1)

\* C12 as stated: every invocation of write_translation_row whose payload
\* parses and that ran to its end wrote at least one row, exactly one if
\* its marker is not an answers marker; what an invocation returns is the
\* number of rows it and its recursive calls wrote, and the rows of the file
\* are those rows.
C12_AtLeastOneRowPerCall ==
    /\ \A i \in 1..Len(calls) :
        /\ (calls[i].ran /\ json_loads(ToParse(calls[i].annot)).ok) =>
            /\ Len(calls[i].written) >= 1
            /\ SubKindName(calls[i].annot) # P1000ANSWERS =>
                  Len(calls[i].written) = 1
        /\ calls[i].returned => calls[i].ret = RowsFrom(i)
    /\ xpc = "done" => total = Len(DataRows)

(* The recursion of C13 *)

\* the recursive call made by the (i-1)-th invocation was handed a proper
\* suffix of that invocation's text, one that begins with a marker prefix
\* lying after the "{" the invocation took for its payload's start
ShorterSuffix(i) ==
    LET outer == calls[i - 1].annot
        inner == calls[i].annot
        at == Len(outer) - Len(inner)
    IN  /\ Len(inner) < Len(outer)
        /\ inner = SliceFrom(outer, at)
        /\ SubSeq(inner, 1, Len(AT_P1000)) = AT_P1000
        /\ Contains(outer, <<"{">>) /\ at > Find(outer, <<"{">>)

\* where the text of the i-th invocation begins in the annotation (0-based)
StartOf(i) == Len(annotation) - Len(calls[i].annot)

C14_RowKeysDistinct ==
    xpc = "done" =>
        \A i, j \in 1..Len(DataRows) :
            DataRows[i][1] = DataRows[j][1] => i = j

----------------------------------------------------------------------------
(* Properties of the table *)

\* the header and the data rows read so far
HeaderOf(file) == file[1]
Matches(file, i) == Len(file[i]) = Len(HeaderOf(file))

\* the entry the constructor builds for data row i: the row's cells after
\* the first, paired with the header's cells after the first, in order
EntryOfRow(file, i) ==
    [field_name |-> file[i][1],
     translations |->
        [j \in 1..(Len(file[i]) - 1) |-> <<HeaderOf(file)[j + 1], file[i][j + 1]>>],
     translated |-> FALSE,
     is_incomplete |-> \E j \in 2..Len(file[i]) : file[i][j] = <<>>]

LastRowOf(file, upto, key) ==
    Max({i \in 2..upto : Matches(file, i) /\ file[i][1] = key})

RunStart(s, i) == Min({j \in 1..i : \A k \in j..i : s[k] = "_"})
RunEnd(s, i) == Max({j \in i..Len(s) : \A k \in i..j : s[k] = "_"})

\* what position i of s contributes: a run of k underscores becomes
\* k \div 3 "@" followed by k % 3 underscores
Piece(s, i) ==
    IF s[i] # "_" THEN <<s[i]>>
    ELSE LET off == i - RunStart(s, i)
             k == RunEnd(s, i) - RunStart(s, i) + 1
         IN  IF off >= 3 * (k \div 3) THEN <<"_">>
             ELSE IF off % 3 = 0 THEN <<"@">> ELSE <<>>

RECURSIVE Concat(_)
Concat(pieces) == IF pieces = <<>> THEN <<>> ELSE Head(pieces) \o Concat(Tail(pieces))

Subst(s) == Concat([i \in 1..Len(s) |-> Piece(s, i)])
Fold(s, on) == IF on THEN [i \in 1..Len(s) |-> IF s[i] = QUOTE THEN "'" ELSE s[i]] ELSE s
Trim(s) ==
    LET keep == {i \in 1..Len(s) : s[i] \notin StripChars}
    IN  IF keep = {} THEN <<>> ELSE SubSeq(s, Min(keep), Max(keep))

NameOf(l) ==
    IF l = EnglishCode THEN English
    ELSE IF l = SpanishCode THEN Spanish
    ELSE IF l = FrenchCode THEN French
    ELSE l
IsCode(l) == l \in {EnglishCode, SpanishCode, FrenchCode}

\* l leads to a text of the entry: the language is one of the entry's, and
\* a code is known to the alias table
Resolves(l) ==
    /\ HasKey(built.translations, NameOf(l))
    /\ IsCode(l) => HasKey(aliases, l)

\* C9: a lookup by a language's name or by its short code returns the text
\* stored for that language (so both return the same text); a lookup that
\* resolves to no key of the entry raises KeyError; the translated flag is
\* true exactly when some lookup has succeeded, and the rest of the entry
\* stays as built.
C9_LookupResolves ==
    /\ last.called =>
        IF Resolves(last.l)
        THEN /\ last.err = ""
             /\ last.text =
                  Trim(Fold(Subst(Get(built.translations, NameOf(last.l))),
                            last.replace_quotes))
        ELSE last.err = "KeyError"
    /\ entry.translated <=> succeeded
    /\ entry.field_name = built.field_name
    /\ entry.translations = built.translations
    /\ entry.is_incomplete = built.is_incomplete

\* a lookup that fails after a lookup by short code has succeeded
C9_Witness ==
    /\ last.called /\ last.l = FrenchCode /\ last.err = "KeyError"
    /\ entry.translated
    /\ HasKey(built.translations, Spanish) /\ HasKey(aliases, SpanishCode)

----------------------------------------------------------------------------
(* Properties of the filler *)

\* the places of the field nodes of a document
NodePlaces(doc) ==
    UNION { {<<c, n>> : n \in 1..Len(doc[c].nodes)} : c \in 1..Len(doc) }
NodeAt(doc, pl) == doc[pl[1]].nodes[pl[2]]

\* C1 as stated: a second run on the document a first run produced, with
\* the same table and arguments, changes no slot.
C1_SecondRunChangesNothing ==
    runs = 2 => original_json = before.original_json

\* a slot that was filled when the run began holds the same text still, and
\* a slot is there iff it was there
SlotKept(was, is) ==
    /\ is.has = was.has
    /\ (was.has /\ was.v # <<>>) => is.v = was.v

\* C2: compared with the document the latest run began with, the document
\* has the same categories, nodes, ids and enum entries in the same order,
\* and every translation slot that held a non-empty text holds it still.
C2_FilledSlotsUntouched ==
    fpc # "idle" =>
    LET was == before.original_json
        is == original_json
    IN  /\ Len(is) = Len(was)
        /\ \A c \in 1..Len(was) :
            /\ is[c].list = was[c].list
            /\ Len(is[c].nodes) = Len(was[c].nodes)
            /\ \A n \in 1..Len(was[c].nodes) :
                LET a == was[c].nodes[n]
                    b == is[c].nodes[n]
                IN  /\ b.hasId = a.hasId /\ b.id = a.id
                    /\ SlotKept(a.direct, b.direct)
                    /\ SlotKept(a.label, b.label)
                    /\ SlotKept(a.note, b.note)
                    /\ b.hasEnum = a.hasEnum
                    /\ Len(b.enum) = Len(a.enum)
                    /\ \A i \in 1..Len(a.enum) :
                        /\ b.enum[i].id = a.enum[i].id
                        /\ a.enum[i].translation # <<>> =>
                            b.enum[i].translation = a.enum[i].translation

\* a run has filled slots of a node whose direct slot and one choice were
\* already filled, under a table that has rows for both
C2_Witness ==
    /\ runs >= 1
    /\ \E pl \in NodePlaces(original_json) :
        LET a == NodeAt(before.original_json, pl)
            b == NodeAt(original_json, pl)
        IN  /\ a.hasId /\ HasKey(translations, a.id)
            /\ a.direct = Slot(Filled)
            /\ \E i \in 1..Len(a.enum) :
                /\ a.enum[i].translation = Filled
                /\ HasKey(translations, ChoiceKey(a.id, a.enum[i].id))
            /\ a # b

\* C3 as stated: after a run, every choice of a node with an id that was
\* empty and whose key id[value=choice] is in the table holds the table's
\* text, and so does an empty note slot whose key id_p1000notes is in the
\* table, whether or not the table has a row for the bare id.
C3_ChoicesAndNotesFilled ==
    (runs >= 1 /\ fpc = "ready") =>
        \A pl \in NodePlaces(original_json) :
            LET a == NodeAt(before.original_json, pl)
                b == NodeAt(original_json, pl)
                text(key) == get_translation(Get(before.translations, key),
                                             selected_language,
                                             supported_languages_dict,
                                             replace_quotes_flag).text
            IN  a.hasId =>
                /\ \A i \in 1..Len(a.enum) :
                    (/\ a.enum[i].translation = <<>>
                     /\ HasKey(before.translations, ChoiceKey(a.id, a.enum[i].id)))
                    => b.enum[i].translation = text(ChoiceKey(a.id, a.enum[i].id))
                /\ (IsEmptySlot(a.note) /\ HasKey(before.translations, a.id \o NOTES_SUFFIX))
                    => b.note.v = text(a.id \o NOTES_SUFFIX)

(* The count of C11 *)

\* the translation slots of a document: each node's direct, label and note
\* slot, and each of its enum choices
SlotIds(doc) ==
    {<<pl, k, 0>> : pl \in NodePlaces(doc), k \in {"direct", "label", "note"}}
    \cup UNION { {<<pl, "enum", i>> : i \in 1..Len(NodeAt(doc, pl).enum)} :
                  pl \in NodePlaces(doc) }

\* the slot of a document under one of its slot ids
SlotAt(doc, id) ==
    LET node == NodeAt(doc, id[1])
    IN  IF id[2] = "direct" THEN node.direct
        ELSE IF id[2] = "label" THEN node.label
        ELSE IF id[2] = "note" THEN node.note
        ELSE Slot(node.enum[id[3]].translation)

\* the slots that were the empty string in was and hold a text in is
SlotsFilled(was, is) ==
    {id \in SlotIds(was) : /\ IsEmptySlot(SlotAt(was, id))
                           /\ SlotAt(is, id).v # <<>>}

\* C11 as stated: the integer a run of apply_translations returns is the
\* number of slots, over all categories, that were the empty string when
\* the run began and hold a non-empty text after it.
C11_ReturnCountsFilledSlots ==
    (runs >= 1 /\ fpc = "ready") =>
        returned = Cardinality(SlotsFilled(before.original_json, original_json))

====
